---------------------------- MODULE Spec2Model ----------------------------
(***************************************************************************)
(* compact-calendar: the week walk of CalendarRenderer (src/rendering.rs)  *)
(* over a Calendar (src/models.rs).                                        *)
(*                                                                         *)
(* A NaiveDate is its day number from 0001-01-01 = 1 (chrono's             *)
(* num_days_from_ce), so date arithmetic is integer arithmetic and the     *)
(* calendar fields year()/month()/day()/weekday() are computed from it.    *)
(***************************************************************************)
EXTENDS Integers, Sequences, FiniteSets, TLC

VARIABLES
    calendar,        \* the Calendar the renderer borrows (models.rs:125-134)
    now,             \* the system clock's date: chrono::Local::now().date_naive()
    ticks,           \* midnights the clock has passed so far
    no_color,        \* the process environment's NO_COLOR entry
    pc,              \* "idle" | "loop" | "exit" : position in render / the week walk
    mode,            \* "print" (render) | "string" (render_to_string)
    renders,         \* render calls started so far
    prev_no_color,   \* render_to_string's local (rendering.rs:199)
    end_date,        \* the walk's locals (rendering.rs:254-263)
    current_date,
    week_num,
    current_month,
    details_queue,
    shown_ranges,
    is_first_month,
    layout,          \* the WeekLayout of the last loop iteration
    next_layout,
    output,          \* the lines written by the current render, in order
    visited,         \* history: <<first date, last date>> of every week the loop built
    today_reads,     \* history: the clock values read during the current render
    env_at_call,     \* history: NO_COLOR when the current render was called
    fn,              \* the last pure-function call: its arguments and result
    previous         \* history: the mode, NO_COLOR at call and output of the render before

vars == <<calendar, now, ticks, no_color, pc, mode, renders, prev_no_color,
          end_date, current_date, week_num, current_month, details_queue,
          shown_ranges, is_first_month, layout, next_layout, output, visited,
          today_reads, env_at_call, fn, previous>>

-----------------------------------------------------------------------------
(* Bounds of the model *)

\* the rendered years: 2023 starts on a Sunday and ends on a Sunday, 2024 is a
\* leap year that starts on a Monday and ends on a Tuesday
Years == {2023, 2024}
\* the years whose dates the model can name (a week reaches into the neighbours)
DateYears == 2022 .. 2025
MaxRenders == 2
MaxTicks == 1
MaxRanges == 2
MaxDetails == 2

-----------------------------------------------------------------------------
(* Option<T> *)

None == <<>>
Some(x) == <<x>>
is_some(o) == o /= None
unwrap(o) == o[1]

-----------------------------------------------------------------------------
(* chrono::NaiveDate *)

is_leap_year(y) == (y % 4 = 0 /\ y % 100 /= 0) \/ y % 400 = 0

days_before_year(y) ==
    365 * (y - 1) + ((y - 1) \div 4) - ((y - 1) \div 100) + ((y - 1) \div 400)

days_in_month(y, m) ==
    CASE m \in {4, 6, 9, 11} -> 30
      [] m = 2 -> IF is_leap_year(y) THEN 29 ELSE 28
      [] OTHER -> 31

RECURSIVE days_before_month(_, _)
days_before_month(y, m) ==
    IF m = 1 THEN 0 ELSE days_before_month(y, m - 1) + days_in_month(y, m - 1)

\* NaiveDate::from_ymd_opt(y, m, d).unwrap()
from_ymd(y, m, d) == days_before_year(y) + days_before_month(y, m) + d

Dates == from_ymd(2022, 1, 1) .. from_ymd(2025, 12, 31)

\* the calendar fields of every date, computed once
ymd_table ==
    [dt \in Dates |->
        LET y == CHOOSE yy \in DateYears :
                     days_before_year(yy) < dt /\ dt <= days_before_year(yy + 1)
            o == dt - days_before_year(y)
            m == CHOOSE mm \in 1 .. 12 :
                     days_before_month(y, mm) < o
                     /\ o <= days_before_month(y, mm) + days_in_month(y, mm)
        IN  <<y, m, o - days_before_month(y, m)>>]

\* Datelike::year / month / day
year(dt) == ymd_table[dt][1]
month(dt) == ymd_table[dt][2]
day(dt) == ymd_table[dt][3]

\* Datelike::weekday as Weekday::num_days_from_monday: 0001-01-01 is a Monday
num_days_from_monday(dt) == (dt - 1) % 7
num_days_from_sunday(dt) == dt % 7
is_sat_or_sun(dt) == num_days_from_monday(dt) \in {5, 6}

\* NaiveDate::pred_opt().unwrap()
pred(dt) == dt - 1

DAYS_IN_WEEK == 7

\* date.checked_add_signed(Duration::days(n)).unwrap()
checked_add_days(dt, n) == dt + n

\* date.format("%m/%d"): month and day, the year is dropped
format_md(dt) == <<month(dt), day(dt)>>


-----------------------------------------------------------------------------
(* models.rs *)

\* MonthFilter (models.rs:29-34); arg is the month of Single, the count of
\* CurrentWithFollowing, 0 otherwise
FilterAll == [kind |-> "All", arg |-> 0]
FilterSingle(m) == [kind |-> "Single", arg |-> m]
FilterCurrent == [kind |-> "Current", arg |-> 0]
FilterCurrentWithFollowing(n) == [kind |-> "CurrentWithFollowing", arg |-> n]

\* whether resolving the filter reads the system clock (models.rs:83, 92)
reads_clock(filter) == filter.kind \in {"Current", "CurrentWithFollowing"}

min(a, b) == IF a <= b THEN a ELSE b

get_month_range_no_clamp(filter, yr, today) ==
    CASE filter.kind = "All" -> <<1, 12>>
      [] filter.kind = "Single" -> <<filter.arg, filter.arg>>
      [] filter.kind = "Current" -> <<month(today), month(today)>>
      [] OTHER -> <<month(today), month(today) + filter.arg>>

\* MonthFilter::get_month_range; today is the value chrono::Local::now()
\* .date_naive() gives at this call.  n <= 11 (main.rs:105), so the u32 sum
\* start_month + n stays far below 2^32.
get_month_range(filter, yr, today) ==
    CASE filter.kind = "All" -> <<1, 12>>
      [] filter.kind = "Single" -> <<filter.arg, filter.arg>>
      [] filter.kind = "Current" ->
            IF yr = year(today)
            THEN <<month(today), month(today)>>
            ELSE <<month(today), month(today)>>
      [] OTHER ->
            LET start_month == IF yr = year(today) THEN month(today) ELSE month(today)
                end_month == min(start_month + filter.arg, 12)
            IN  <<start_month, end_month>>

\* MonthFilter::should_display_month
should_display_month(filter, m, yr, today) ==
    LET r == get_month_range(filter, yr, today)
    IN  m >= r[1] /\ m <= r[2]

\* MonthFilter::get_date_range: the first day of the start month through the
\* last day of the end month of the given year
get_date_range(filter, yr, today) ==
    LET r == get_month_range(filter, yr, today)
    IN  <<from_ymd(yr, r[1], 1), from_ymd(yr, r[2], days_in_month(yr, r[2]))>>

\* Calendar::get_weekday_num
get_weekday_num(week_start, dt) ==
    IF week_start = "Monday" THEN num_days_from_monday(dt)
    ELSE num_days_from_sunday(dt)

-----------------------------------------------------------------------------
(* formatting.rs: WeekLayout *)

\* WeekLayout::new(anchor): the anchor and the next 6 days, and the first
\* index that starts a month (index 0: the first day of its month; index
\* i > 0: its month or year differs from index i-1's)
month_start_at(dates, i) ==
    IF i = 1 THEN day(dates[1]) = 1
    ELSE month(dates[i]) /= month(dates[i - 1]) \/ year(dates[i]) /= year(dates[i - 1])

WeekLayout_new(anchor) ==
    LET dates == [i \in 1 .. DAYS_IN_WEEK |-> anchor + (i - 1)]
        marks == {i \in 1 .. DAYS_IN_WEEK : month_start_at(dates, i)}
    IN  [dates |-> dates,
         month_start_idx |->
            IF marks = {} THEN None
            ELSE LET i == CHOOSE k \in marks : \A j \in marks : k <= j
                 IN  Some(<<i - 1, month(dates[i])>>)]

-----------------------------------------------------------------------------
(* rendering.rs: the pure helpers of CalendarRenderer *)

RECURSIVE align_forward(_, _)
align_forward(week_start, dt) ==
    IF get_weekday_num(week_start, dt) /= 0
    THEN align_forward(week_start, dt + 1)
    ELSE dt

\* CalendarRenderer::align_to_week_start: step back a day at a time until the
\* weekday number is 0
RECURSIVE align_to_week_start(_, _)
align_to_week_start(week_start, dt) ==
    IF get_weekday_num(week_start, dt) /= 0
    THEN align_to_week_start(week_start, pred(dt))
    ELSE dt

RECURSIVE last_range_color(_, _, _)
last_range_color(ranges, dt, i) ==
    IF i < 1 THEN None
    ELSE IF dt >= ranges[i].start /\ dt <= ranges[i].end
         THEN Some(ranges[i].color)
         ELSE last_range_color(ranges, dt, i - 1)

\* the loop of get_date_color over self.calendar.ranges, from index i on
RECURSIVE first_range_color(_, _, _)
first_range_color(ranges, dt, i) ==
    IF i > Len(ranges) THEN None
    ELSE IF dt >= ranges[i].start /\ dt <= ranges[i].end
         THEN Some(ranges[i].color)
         ELSE first_range_color(ranges, dt, i + 1)

get_date_color_last_range(cal, dt) ==
    IF cal.color_mode = "Work" /\ is_sat_or_sun(dt) THEN None
    ELSE IF dt \in DOMAIN cal.details /\ is_some(cal.details[dt].color)
         THEN Some(unwrap(cal.details[dt].color))
         ELSE last_range_color(cal.ranges, dt, Len(cal.ranges))

\* CalendarRenderer::get_date_color
get_date_color(cal, dt) ==
    IF cal.color_mode = "Work" /\ is_sat_or_sun(dt) THEN None
    ELSE IF dt \in DOMAIN cal.details /\ is_some(cal.details[dt].color)
         THEN Some(unwrap(cal.details[dt].color))
         ELSE first_range_color(cal.ranges, dt, 1)

\* CalendarRenderer::should_render_week
should_render_week(cal, lay, today) ==
    \E i \in 1 .. DAYS_IN_WEEK :
        IF year(lay.dates[i]) /= cal.year THEN FALSE
        ELSE should_display_month(cal.month_filter, month(lay.dates[i]), cal.year, today)

\* CalendarRenderer::get_filtered_date_range
get_filtered_date_range(cal, today) == get_date_range(cal.month_filter, cal.year, today)

-----------------------------------------------------------------------------
(* The process environment: std::env *)

\* an environment value is an OsString: bytes that may or may not be valid
\* Unicode
OsString(text) == [unicode |-> TRUE, text |-> text]
NotUnicode == [unicode |-> FALSE, text |-> "\\xff"]

\* std::env::var(key): Ok(text) when the entry is set and valid Unicode,
\* Err(NotPresent) / Err(NotUnicode) otherwise
env_var(entry) ==
    IF is_some(entry) /\ unwrap(entry).unicode
    THEN [ok |-> TRUE, val |-> unwrap(entry).text]
    ELSE [ok |-> FALSE, val |-> ""]

\* Result::ok
result_ok(r) == IF r.ok THEN Some(r.val) ELSE None

\* ColorCodes::is_color_disabled / ColorPalette::is_color_disabled
is_color_disabled(entry) == env_var(entry).ok

\* the names ColorPalette::get_color_value knows
PaletteColors ==
    {"orange", "yellow", "green", "blue", "purple", "red", "cyan", "gray",
     "light_orange", "light_yellow", "light_green", "light_blue",
     "light_purple", "light_red", "light_cyan"}

-----------------------------------------------------------------------------
(* rendering.rs: the parts of one week's output *)

SeqRange(f) == {f[i] : i \in DOMAIN f}

RECURSIVE Ascending(_)
\* the numbers of a finite set in ascending order
Ascending(S) ==
    IF S = {} THEN <<>>
    ELSE LET lo == CHOOSE x \in S : \A y \in S : x <= y
         IN  <<lo>> \o Ascending(S \ {lo})

\* the indices of seq, ascending, whose element satisfies Test
SelectIdx(seq, Test(_)) == Ascending({i \in DOMAIN seq : Test(seq[i])})

RECURSIVE collect_details_newest_first(_, _, _, _)
collect_details_newest_first(cal, lay, queue, i) ==
    IF i > DAYS_IN_WEEK THEN queue
    ELSE LET dt == lay.dates[i]
             q2 == IF dt \in DOMAIN cal.details
                      /\ ~(\E k \in DOMAIN queue : queue[k].date = dt)
                   THEN <<[date |-> dt, detail |-> cal.details[dt]]>> \o queue
                   ELSE queue
         IN  collect_details_newest_first(cal, lay, q2, i + 1)

\* CalendarRenderer::collect_details, from the layout's i-th date on
RECURSIVE collect_details(_, _, _, _)
collect_details(cal, lay, queue, i) ==
    IF i > DAYS_IN_WEEK THEN queue
    ELSE LET dt == lay.dates[i]
             q2 == IF dt \in DOMAIN cal.details
                      /\ ~(\E k \in DOMAIN queue : queue[k].date = dt)
                   THEN Append(queue, [date |-> dt, detail |-> cal.details[dt]])
                   ELSE queue
         IN  collect_details(cal, lay, q2, i + 1)

\* the style print_annotations wraps an annotation in (rendering.rs:825-839,
\* 856-873): none in the string walk or with colours disabled
annotation_style(styled, color) ==
    IF styled /\ is_some(color)
    THEN [bg |-> IF unwrap(color) \in PaletteColors THEN color ELSE None,
          fg |-> Some("black")]
    ELSE [bg |-> None, fg |-> None]

detail_annotation(entry, styled) ==
    [kind |-> "detail", src |-> entry.date,
     text |-> <<format_md(entry.date), "-", entry.detail.description>>,
     style |-> annotation_style(styled, entry.detail.color)]

range_annotation(idx, range, styled) ==
    [kind |-> "range", src |-> idx,
     text |-> IF is_some(range.description)
              THEN <<format_md(range.start), "to", format_md(range.end), "-",
                     unwrap(range.description)>>
              ELSE <<format_md(range.start), "to", format_md(range.end)>>,
     style |-> annotation_style(styled, Some(range.color))]

range_overlaps_start_only(range, week_start, week_end) ==
    range.start >= week_start /\ range.start <= week_end

\* rendering.rs:461: the test that shows a range on a week
range_overlaps(range, week_start, week_end) ==
    range.start <= week_end /\ range.end >= week_start

detail_in_week_first_day(dt, week_start, week_end) == dt = week_start

detail_in_week_open(dt, week_start, week_end) == dt > week_start /\ dt <= week_end

\* rendering.rs:445: the test that drains a queued detail
detail_in_week(dt, week_start, week_end) == dt >= week_start /\ dt <= week_end

\* CalendarRenderer::annotations_to_string / print_annotations: the
\* annotations of the week in output order, the queue without the drained
\* details, and the shown ranges (indices from 1 here, from 0 in the code)
annotations(cal, lay, queue, shown, styled) ==
    LET week_start == lay.dates[1]
        week_end == lay.dates[DAYS_IN_WEEK]
        details_to_remove ==
            SelectIdx(queue, LAMBDA e : detail_in_week(e.date, week_start, week_end))
        kept == SelectIdx(queue,
                    LAMBDA e : ~detail_in_week(e.date, week_start, week_end))
        new_ranges ==
            SelectIdx([i \in 1 .. Len(cal.ranges) |-> i],
                LAMBDA i : ~(\E k \in DOMAIN shown : shown[k] = i)
                           /\ range_overlaps(cal.ranges[i], week_start, week_end))
    IN  [annotations |->
            [k \in 1 .. Len(details_to_remove) |->
                detail_annotation(queue[details_to_remove[k]], styled)]
            \o [k \in 1 .. Len(new_ranges) |->
                range_annotation(new_ranges[k], cal.ranges[new_ranges[k]], styled)],
         queue |-> [k \in 1 .. Len(kept) |-> queue[kept[k]]],
         shown |-> shown \o new_ranges]

\* whether the layout's date at index i (from 1) starts another month or year
\* than the date before it (rendering.rs:400-405, 712-717)
is_month_boundary(lay, i) ==
    IF i > 1
    THEN month(lay.dates[i]) /= month(lay.dates[i - 1])
         \/ year(lay.dates[i]) /= year(lay.dates[i - 1])
    ELSE FALSE

\* the spaces after a day number (rendering.rs:413-424, 789-800)
cell_pad(lay, i) ==
    IF i < DAYS_IN_WEEK
    THEN IF month(lay.dates[i]) /= month(lay.dates[i + 1])
            \/ year(lay.dates[i]) /= year(lay.dates[i + 1])
         THEN 1 ELSE 2
    ELSE 1

\* one day cell of week_row_to_string: never styled
string_cell(lay, i) ==
    [date |-> lay.dates[i], sep |-> is_month_boundary(lay, i), day |-> day(lay.dates[i]),
     pad |-> cell_pad(lay, i), color |-> None, bg |-> None, fg |-> None,
     effects |-> {}]

print_cell_two_spaces(cal, lay, i, today, env) == [string_cell(lay, i) EXCEPT !.pad = 2]

\* one day cell of print_week_row; today is the clock read of this cell
\* (rendering.rs:723)
print_cell(cal, lay, i, today, env) ==
    LET dt == lay.dates[i]
        is_today == dt = today
        is_past == cal.past_date_display = "Strikethrough" /\ dt < today
        is_weekend == cal.weekend_display = "Dimmed" /\ is_sat_or_sun(dt)
        color == get_date_color(cal, dt)
        plain == string_cell(lay, i)
    IN  IF is_some(color)
        THEN IF is_color_disabled(env) THEN plain
             ELSE [plain EXCEPT
                     !.color = color,
                     !.bg = IF unwrap(color) \in PaletteColors
                            THEN Some(<<unwrap(color), is_weekend>>) ELSE None,
                     !.fg = Some("black"),
                     !.effects = (IF is_past THEN {"strikethrough"} ELSE {})
                                 \cup (IF is_today THEN {"underline"} ELSE {})]
        ELSE IF is_color_disabled(env) THEN plain
             ELSE [plain EXCEPT
                     !.effects = (IF is_past THEN {"strikethrough"} ELSE {})
                                 \cup (IF is_today THEN {"underline"} ELSE {})
                                 \cup (IF is_weekend THEN {"dim"} ELSE {})]

\* week_row_to_string / print_week_row followed by the annotations: one line
week_row(cal, m, lay, wk, ann, today, env) ==
    [kind |-> "week_row",
     week_num |-> wk,
     month_name |-> IF is_some(lay.month_start_idx)
                    THEN Some(unwrap(lay.month_start_idx)[2]) ELSE None,
     dates |-> lay.dates,
     cells |-> [i \in 1 .. DAYS_IN_WEEK |->
                  IF m = "print" THEN print_cell(cal, lay, i, today, env)
                  ELSE string_cell(lay, i)],
     annotations |-> ann]

month_border_at_any_index(lay) ==
    IF is_some(lay.month_start_idx)
    THEN <<[kind |-> "month_border", idx |-> unwrap(lay.month_start_idx)[1]]>>
    ELSE <<>>

\* month_border_to_string: a line only for a marker at an index > 0
month_border(lay) ==
    IF is_some(lay.month_start_idx) /\ unwrap(lay.month_start_idx)[1] > 0
    THEN <<[kind |-> "month_border", idx |-> unwrap(lay.month_start_idx)[1]]>>
    ELSE <<>>

\* the first index > 0 (from 0, as in the code) where the month or year changes
\* (rendering.rs:305-314)
month_boundary_idx(lay) ==
    LET b == {i \in 2 .. DAYS_IN_WEEK : is_month_boundary(lay, i)}
    IN  IF b = {} THEN None
        ELSE Some((CHOOSE i \in b : \A j \in b : i <= j) - 1)

\* separator_to_string: the last index (from 0) that enters current_month
separator(cal, lay, cur_month) ==
    LET in_month(i) == i >= 1 /\ year(lay.dates[i]) = cal.year
                       /\ Some(month(lay.dates[i])) = cur_month
        bars == {i \in 1 .. DAYS_IN_WEEK : in_month(i) /\ ~in_month(i - 1)}
    IN  [kind |-> "separator",
         idx |-> IF bars = {} THEN None
                 ELSE Some((CHOOSE i \in bars : \A j \in bars : i >= j) - 1)]

\* separator_before_month_to_string
separator_before_month(next_lay) ==
    [kind |-> "separator_before_month",
     idx |-> IF is_some(next_lay.month_start_idx)
             THEN Some(unwrap(next_lay.month_start_idx)[1]) ELSE None]

trailing_border_any_marker(cal, lay, next_lay, cur_month, next_week_date, last_date) ==
    IF year(next_week_date) > cal.year \/ next_week_date > last_date
    THEN <<[kind |-> "closing", idx |-> month_boundary_idx(lay)]>>
    ELSE IF is_some(lay.month_start_idx) THEN <<separator(cal, lay, cur_month)>>
    ELSE IF is_some(next_lay.month_start_idx)
    THEN <<separator_before_month(next_lay)>>
    ELSE <<>>

\* the row that follows a week row (rendering.rs:301-348)
trailing_border(cal, lay, next_lay, cur_month, next_week_date, last_date) ==
    LET is_last_week == year(next_week_date) > cal.year \/ next_week_date > last_date
    IN  IF is_last_week
        THEN <<[kind |-> "closing", idx |-> month_boundary_idx(lay)]>>
        ELSE IF is_some(lay.month_start_idx)
        THEN IF unwrap(lay.month_start_idx)[1] > 0
             THEN <<separator(cal, lay, cur_month)>> ELSE <<>>
        ELSE IF is_some(next_lay.month_start_idx)
                /\ next_week_date <= last_date
                /\ year(next_week_date) = cal.year
        THEN <<separator_before_month(next_lay)>>
        ELSE <<>>

next_week_num_from_date(n, dt) == (dt - from_ymd(year(dt), 1, 1)) \div DAYS_IN_WEEK + 2

\* rendering.rs:351: the number of the week row after row n, whose week
\* started on dt
next_week_num(n, dt) == n + 1

next_week_eight_days(dt) == checked_add_days(dt, DAYS_IN_WEEK + 1)
next_week_six_days(dt) == checked_add_days(dt, DAYS_IN_WEEK - 1)

\* rendering.rs:270-272, 276-278: the date a loop iteration advances to
next_week(dt) == checked_add_days(dt, DAYS_IN_WEEK)

-----------------------------------------------------------------------------
(* The characters of the lines: a text is a sequence of characters; a       *)
(* box-drawing character is written by its Unicode name                    *)

CALENDAR_WIDTH == 34
HEADER_WIDTH == 48

Repeat(c, n) == [k \in 1 .. n |-> c]

RECURSIVE Concat(_)
Concat(texts) == IF texts = <<>> THEN <<>> ELSE Head(texts) \o Concat(Tail(texts))

Digit(n) == <<"0", "1", "2", "3", "4", "5", "6", "7", "8", "9">>[n + 1]

RECURSIVE Decimal(_)
\* format!("{}", n) for n >= 0
Decimal(n) == IF n < 10 THEN <<Digit(n)>> ELSE Append(Decimal(n \div 10), Digit(n % 10))

\* format!("{:c<w$}", text): filled on the right to at least w characters
PadRight(text, w, c) == text \o Repeat(c, w - Len(text))
\* format!("{:02}", n): filled with zeros on the left to at least 2
ZeroPad2(n) == Repeat("0", 2 - Len(Decimal(n))) \o Decimal(n)
\* format!("{:^w$}", text): centred, the odd space on the right
Center(text, w) ==
    LET fill == IF w > Len(text) THEN w - Len(text) ELSE 0
    IN  Repeat(" ", fill \div 2) \o text \o Repeat(" ", fill - fill \div 2)

\* MonthInfo::from_month(m).name: the month's display name
MonthInfo_name(m) ==
    <<<<"J", "a", "n", "u", "a", "r", "y">>,
      <<"F", "e", "b", "r", "u", "a", "r", "y">>,
      <<"M", "a", "r", "c", "h">>,
      <<"A", "p", "r", "i", "l">>,
      <<"M", "a", "y">>,
      <<"J", "u", "n", "e">>,
      <<"J", "u", "l", "y">>,
      <<"A", "u", "g", "u", "s", "t">>,
      <<"S", "e", "p", "t", "e", "m", "b", "e", "r">>,
      <<"O", "c", "t", "o", "b", "e", "r">>,
      <<"N", "o", "v", "e", "m", "b", "e", "r">>,
      <<"D", "e", "c", "e", "m", "b", "e", "r">>>>[m]

\* header_to_string: the four lines of the header
header_text(yr, week_start) ==
    LET title == <<"C", "O", "M", "P", "A", "C", "T", " ", "C", "A", "L", "E",
        "N", "D", "A", "R", " ">> \o Decimal(yr)
        days == IF week_start = "Monday"
                THEN <<"M", "o", "n", " ", " ", "T", "u", "e", " ", " ", "W",
                    "e", "d", " ", " ", "T", "h", "u", " ", " ", "F", "r", "i",
                    " ", " ", "S", "a", "t", " ", " ", "S", "u", "n", " ",
                    "VERTICAL">>
                ELSE <<"S", "u", "n", " ", " ", "M", "o", "n", " ", " ", "T",
                    "u", "e", " ", " ", "W", "e", "d", " ", " ", "T", "h", "u",
                    " ", " ", "F", "r", "i", " ", " ", "S", "a", "t", " ",
                    "VERTICAL">>
    IN  <<PadRight(<<"DOWN_AND_RIGHT">>, HEADER_WIDTH + 1, "HORIZONTAL") \o <<"DOWN_AND_LEFT">>,
          <<"VERTICAL">> \o Center(title, HEADER_WIDTH) \o <<"VERTICAL">>,
          PadRight(<<"VERTICAL_AND_RIGHT">>, HEADER_WIDTH + 1,
              "HORIZONTAL") \o <<"VERTICAL_AND_LEFT">>,
          <<"VERTICAL">> \o Repeat(" ", 14) \o days>>

\* month_border_to_string for a marker at index idx > 0
month_border_text(idx) ==
    <<"VERTICAL">> \o Repeat(" ", 13) \o <<"DOWN_AND_RIGHT">>
    \o Repeat("HORIZONTAL", (idx - 1) * 5 + 4) \o <<"DOWN_AND_HORIZONTAL">>
    \o Repeat("HORIZONTAL", (DAYS_IN_WEEK - idx) * 5 - 1) \o <<"VERTICAL_AND_LEFT">>

\* the label and the day cells of week_row_to_string / print_week_row, without
\* escape sequences
week_row_text(row) ==
    LET label == IF is_some(row.month_name)
                 THEN <<"VERTICAL", "W">> \o ZeroPad2(row.week_num) \o <<" ">>
                      \o PadRight(MonthInfo_name(unwrap(row.month_name)), 9, " ")
                 ELSE <<"VERTICAL", "W">> \o ZeroPad2(row.week_num) \o Repeat(" ", 10)
        cell(c) == (IF c.sep THEN <<"VERTICAL">> ELSE <<>>)
                   \o <<" ">> \o ZeroPad2(c.day) \o Repeat(" ", c.pad)
    IN  label \o <<"VERTICAL">>
        \o Concat([i \in DOMAIN row.cells |-> cell(row.cells[i])]) \o <<"VERTICAL">>

\* the closing border (rendering.rs:316-334)
closing_text(month_boundary) ==
    IF is_some(month_boundary)
    THEN LET boundary_idx == unwrap(month_boundary)
         IN  <<"UP_AND_RIGHT">> \o Repeat("HORIZONTAL", 13) \o <<"UP_AND_HORIZONTAL">>
             \o Repeat("HORIZONTAL", (boundary_idx - 1) * 5 + 4) \o <<"UP_AND_HORIZONTAL">>
             \o Repeat("HORIZONTAL", (DAYS_IN_WEEK - boundary_idx) * 5 - 1) \o <<"UP_AND_LEFT">>
    ELSE <<"UP_AND_RIGHT">> \o Repeat("HORIZONTAL",
        13) \o <<"UP_AND_HORIZONTAL">> \o Repeat("HORIZONTAL",
        CALENDAR_WIDTH) \o <<"UP_AND_LEFT">>

\* separator_to_string, from first_bar_idx on
separator_text(first_bar_idx) ==
    <<"VERTICAL">> \o Repeat(" ", 13) \o <<"VERTICAL_AND_RIGHT">>
    \o (IF is_some(first_bar_idx) /\ unwrap(first_bar_idx) > 0
        THEN LET bar_idx == unwrap(first_bar_idx)
             IN  Repeat("HORIZONTAL", (bar_idx - 1) * 5 + 4) \o <<"UP_AND_LEFT">>
                 \o Repeat(" ", (DAYS_IN_WEEK - bar_idx) * 5 - 1) \o <<"VERTICAL">>
        ELSE Repeat("HORIZONTAL", 31) \o <<"VERTICAL_AND_LEFT", "VERTICAL">>)

separator_before_month_text_cell_start(next_idx) ==
    <<"VERTICAL">> \o Repeat(" ", 13) \o <<"VERTICAL">>
    \o Repeat(" ", unwrap(next_idx) * 5) \o <<"DOWN_AND_RIGHT">>
    \o Repeat("HORIZONTAL", (DAYS_IN_WEEK - 1 - unwrap(next_idx)) * 5 + 3)
    \o <<"VERTICAL_AND_LEFT">>

\* separator_before_month_to_string, from the next week's marker index on
separator_before_month_text(next_idx) ==
    IF is_some(next_idx)
    THEN IF unwrap(next_idx) = 0
         THEN <<"VERTICAL">> \o Repeat(" ", 13) \o <<"VERTICAL_AND_RIGHT">>
              \o Repeat("HORIZONTAL", CALENDAR_WIDTH) \o <<"VERTICAL_AND_LEFT">>
         ELSE <<"VERTICAL">> \o Repeat(" ", 13) \o <<"VERTICAL">>
              \o Repeat(" ", (unwrap(next_idx) - 1) * 5 + 4) \o <<"DOWN_AND_RIGHT">>
              \o Repeat("HORIZONTAL",
                  (DAYS_IN_WEEK - 1 - unwrap(next_idx)) * 5 + 4) \o <<"VERTICAL_AND_LEFT">>
    ELSE <<"VERTICAL">> \o Repeat(" ", 13) \o <<"VERTICAL">> \o Repeat(" ", DAYS_IN_WEEK * 4 + 3)

\* NaiveDate::format("%m/%d") of a <<month, day>> pair
format_md_text(md) == ZeroPad2(md[1]) \o <<"/">> \o ZeroPad2(md[2])

\* the characters of one annotation (rendering.rs:446-450, 462-474): the
\* dates as MM/DD, a description as one token
annotation_text(a) ==
    IF a.kind = "detail"
    THEN format_md_text(a.text[1]) \o <<" ", "-", " ", a.text[3]>>
    ELSE format_md_text(a.text[1]) \o <<" ", "t", "o", " ">> \o format_md_text(a.text[3])
         \o (IF Len(a.text) > 3 THEN <<" ", "-", " ", a.text[5]>> ELSE <<>>)

\* annotations.join(", ") (rendering.rs:481); print_annotations writes ", "
\* before every annotation but the first (rendering.rs:814-823, 850-854)
RECURSIVE annotations_text(_, _)
annotations_text(anns, first) ==
    IF anns = <<>> THEN <<>>
    ELSE (IF first THEN <<>> ELSE <<",", " ">>) \o annotation_text(Head(anns))
         \o annotations_text(Tail(anns), FALSE)

\* the frame lines one entry of the output stands for
frame_lines(l) ==
    CASE l.kind = "header" -> header_text(l.year, l.week_start)
      [] l.kind = "month_border" -> <<month_border_text(l.idx)>>
      [] l.kind = "week_row" -> <<week_row_text(l)>>
      [] l.kind = "closing" -> <<closing_text(l.idx)>>
      [] l.kind = "separator" -> <<separator_text(l.idx)>>
      [] l.kind = "separator_before_month" -> <<separator_before_month_text(l.idx)>>
      [] OTHER -> <<>>

-----------------------------------------------------------------------------
(* Inputs *)

WeekStarts == {"Monday", "Sunday"}
ColorModes == {"Normal", "Work"}

\* Calendar::new with the displays main.rs picks by default (main.rs:72-88)
Calendar_new(yr, week_start, color_mode, month_filter, details, ranges) ==
    [year |-> yr, week_start |-> week_start, weekend_display |-> "Dimmed",
     color_mode |-> color_mode, past_date_display |-> "Strikethrough",
     month_filter |-> month_filter, details |-> details, ranges |-> ranges]

DateDetail(description, color) == [description |-> description, color |-> color]
DateRange(start, end, color, description) ==
    [start |-> start, end |-> end, color |-> color, description |-> description]

\* a map from the dates of D to their details
DetailsOn(D, all) == [dt \in D |-> all[dt]]

\* the point details a Calendar of year yr may hold: one on the day before the
\* year, on its first and last day, and two around a week boundary of July.
\* Descriptions are distinct, so an annotation's text names its detail.
CandidateDetails(yr) ==
    (from_ymd(yr - 1, 12, 31) :> DateDetail("Eve", Some("red")))
    @@ (from_ymd(yr, 1, 1) :> DateDetail("NewYear", None))
    @@ (from_ymd(yr, 7, 4) :> DateDetail("Holiday", None))
    @@ (from_ymd(yr, 7, 7) :> DateDetail("Trip", Some("blue")))
    @@ (from_ymd(yr, 12, 31) :> DateDetail("Last", Some("pink")))

\* the ranges a Calendar of year yr may hold: across a week boundary of July,
\* across the start of the year, and wholly before the year
CandidateRanges(yr) ==
    {DateRange(from_ymd(yr, 7, 5), from_ymd(yr, 7, 9), "green", None),
     DateRange(from_ymd(yr - 1, 12, 30), from_ymd(yr, 1, 2), "cyan", Some("Turn")),
     DateRange(from_ymd(yr - 1, 12, 30), from_ymd(yr - 1, 12, 31), "gray", Some("Old"))}

SeqsUpTo(S, n) == UNION {[1 .. k -> S] : k \in 0 .. n}
SubsetsUpTo(S, n) == {T \in SUBSET S : Cardinality(T) <= n}

DetailChoices(yr) ==
    {DetailsOn(D, CandidateDetails(yr)) :
        D \in SubsetsUpTo(DOMAIN CandidateDetails(yr), MaxDetails)}
RangeChoices(yr) == SeqsUpTo(CandidateRanges(yr), MaxRanges)

\* the annotations of the walk's Calendars: a detail and a range in July
SampleDetails(yr) == DetailsOn({from_ymd(yr, 7, 4)}, CandidateDetails(yr))
SampleRanges(yr) ==
    <<DateRange(from_ymd(yr, 7, 5), from_ymd(yr, 7, 9), "green", None)>>

\* details vary beside the sample range, ranges vary beside the sample detail
\* two details and two ranges that all meet the week of the year's first day
BusyWeek(yr) ==
    <<DetailsOn({from_ymd(yr - 1, 12, 31), from_ymd(yr, 1, 1)}, CandidateDetails(yr)),
      <<DateRange(from_ymd(yr - 1, 12, 30), from_ymd(yr, 1, 2), "cyan", Some("Turn")),
        DateRange(from_ymd(yr - 1, 12, 30), from_ymd(yr - 1, 12, 31), "gray", Some("Old"))>>>>

AnnotationChoices(yr) ==
    {<<d, SampleRanges(yr)>> : d \in DetailChoices(yr)}
    \cup {<<SampleDetails(yr), r>> : r \in RangeChoices(yr)}
    \cup {BusyWeek(yr)}

WalkFilters ==
    {FilterAll, FilterSingle(2), FilterSingle(12), FilterCurrent,
     FilterCurrentWithFollowing(1)}
WalkCalendars ==
    {Calendar_new(yr, ws, "Normal", f, SampleDetails(yr), SampleRanges(yr)) :
        yr \in Years, ws \in WeekStarts, f \in WalkFilters}
\* the clock at the start: the eve of a month change, and of a year change
WalkTodays == {from_ymd(2024, 1, 31), from_ymd(2024, 12, 31)}
WalkEnvs == {None, Some(OsString("1")), Some(NotUnicode)}

\* the whole year with every choice of details; January and, as the current
\* month, July with every choice of details and of ranges
AnnotationFilters == {FilterCurrent, FilterSingle(1)}
WholeYears == {2024}
AnnotationCalendars ==
    UNION {{Calendar_new(yr, ws, "Normal", FilterAll, d, SampleRanges(yr)) :
               ws \in WeekStarts, d \in DetailChoices(yr)} : yr \in WholeYears}
    \cup UNION {{Calendar_new(yr, ws, "Normal", f, a[1], a[2]) :
                    ws \in WeekStarts, f \in AnnotationFilters,
                    a \in AnnotationChoices(yr)} : yr \in Years}
AnnotationTodays == {from_ymd(2024, 7, 31)}
AnnotationEnvs == {None}

-----------------------------------------------------------------------------
(* The state machine *)

NoLayout == [dates |-> <<>>, month_start_idx |-> None]
NoCall == [op |-> "none"]
NoRender == [mode |-> "none", env |-> None, output |-> <<>>]

InitWith(calendars, todays, envs, start) ==
    /\ calendar \in calendars
    /\ now \in todays
    /\ no_color \in envs
    /\ ticks = 0
    /\ pc = start
    /\ mode = "print"
    /\ renders = 0
    /\ prev_no_color = None
    /\ end_date = 0
    /\ current_date = 0
    /\ week_num = 1
    /\ current_month = None
    /\ details_queue = <<>>
    /\ shown_ranges = <<>>
    /\ is_first_month = TRUE
    /\ layout = NoLayout
    /\ next_layout = NoLayout
    /\ output = <<>>
    /\ visited = <<>>
    /\ today_reads = {}
    /\ env_at_call = None
    /\ fn = NoCall
    /\ previous = NoRender

\* the walk of a filter that does not read the clock starts on the first of
\* WalkTodays only: the clock then matters to the styles of the cells alone
Init ==
    \/ InitWith({c \in WalkCalendars : ~reads_clock(c.month_filter)},
                {from_ymd(2024, 1, 31)}, WalkEnvs, "idle")
    \/ InitWith({c \in WalkCalendars : reads_clock(c.month_filter)},
                WalkTodays, WalkEnvs, "idle")
InitAnnotations ==
    InitWith(AnnotationCalendars, AnnotationTodays, AnnotationEnvs, "idle")

\* header_to_string: the four header lines
header(cal) == <<[kind |-> "header", year |-> cal.year, week_start |-> cal.week_start]>>

\* rendering.rs:253-263 / 553-562: the start of weeks_to_string / print_weeks,
\* after the header
StartWalk(m) ==
    LET range == get_filtered_date_range(calendar, now)
    IN  /\ mode' = m
        /\ renders' = renders + 1
        /\ env_at_call' = no_color
        /\ output' = header(calendar)
        /\ end_date' = range[2]
        /\ current_date' = align_to_week_start(calendar.week_start, range[1])
        /\ week_num' = 1
        /\ current_month' = None
        /\ details_queue' = <<>>
        /\ shown_ranges' = <<>>
        /\ is_first_month' = TRUE
        /\ layout' = NoLayout
        /\ next_layout' = NoLayout
        /\ visited' = <<>>
        /\ today_reads' = IF reads_clock(calendar.month_filter) THEN {now} ELSE {}
        /\ pc' = "loop"
        /\ previous' = IF renders = 0 THEN NoRender
                        ELSE [mode |-> mode, env |-> env_at_call, output |-> output]
        /\ UNCHANGED <<calendar, now, ticks, fn>>

\* CalendarRenderer::render up to the week loop
Render ==
    /\ pc = "idle"
    /\ renders < MaxRenders
    /\ StartWalk("print")
    /\ UNCHANGED <<no_color, prev_no_color>>

\* CalendarRenderer::render_to_string up to the week loop
RenderToString ==
    /\ pc = "idle"
    /\ renders < MaxRenders
    /\ prev_no_color' = result_ok(env_var(no_color))
    /\ no_color' = Some(OsString("1"))
    /\ StartWalk("string")

\* the clock reads of one should_render_week call
skip_test_reads(cal, lay, today) ==
    IF reads_clock(cal.month_filter)
       /\ \E i \in 1 .. DAYS_IN_WEEK : year(lay.dates[i]) = cal.year
    THEN {today} ELSE {}

\* one iteration of the while loop that skips the week (rendering.rs:265-274)
SkipWeek ==
    /\ pc = "loop"
    /\ current_date <= end_date
    /\ LET lay == WeekLayout_new(current_date)
       IN  /\ ~should_render_week(calendar, lay, now)
           /\ layout' = lay
           /\ visited' = Append(visited, <<lay.dates[1], lay.dates[DAYS_IN_WEEK]>>)
           /\ today_reads' = today_reads \cup skip_test_reads(calendar, lay, now)
           /\ current_date' = next_week(current_date)
    /\ UNCHANGED <<calendar, now, ticks, no_color, pc, mode, renders, prev_no_color,
                   end_date, week_num, current_month, details_queue, shown_ranges,
                   is_first_month, next_layout, output, env_at_call, fn, previous>>

\* one iteration of the while loop that emits the week (rendering.rs:265-356)
EmitWeek ==
    /\ pc = "loop"
    /\ current_date <= end_date
    /\ \E lay \in {WeekLayout_new(current_date)},
          next_lay \in {WeekLayout_new(next_week(current_date))} :
          /\ should_render_week(calendar, lay, now) = TRUE
          /\ \E ann \in {annotations(calendar, lay,
                                      collect_details(calendar, lay, details_queue, 1),
                                      shown_ranges,
                                      mode = "print" /\ ~is_color_disabled(no_color))} :
                LET next_week_date == next_week(current_date)
                    cur_month == IF is_some(lay.month_start_idx)
                                 THEN Some(unwrap(lay.month_start_idx)[2])
                                 ELSE current_month
                    border == IF is_some(lay.month_start_idx) /\ is_first_month
                              THEN month_border(lay) ELSE <<>>
                    row == week_row(calendar, mode, lay, week_num, ann.annotations,
                                    now, no_color)
                IN  /\ layout' = lay
                    /\ next_layout' = next_lay
                    /\ visited' = Append(visited, <<lay.dates[1], lay.dates[DAYS_IN_WEEK]>>)
                    /\ current_month' = cur_month
                    /\ is_first_month' = (is_first_month /\ ~is_some(lay.month_start_idx))
                    /\ details_queue' = ann.queue
                    /\ shown_ranges' = ann.shown
                    /\ output' = output \o border \o <<row>>
                                 \o trailing_border(calendar, lay, next_lay, cur_month,
                                                    next_week_date, end_date)
                    /\ today_reads' = today_reads
                                      \cup skip_test_reads(calendar, lay, now)
                                      \cup (IF mode = "print" THEN {now} ELSE {})
                    /\ current_date' = next_week_date
                    /\ week_num' = next_week_num(week_num, current_date)
                    /\ pc' = IF year(next_week_date) > calendar.year
                             THEN "exit" ELSE "loop"
    /\ UNCHANGED <<calendar, now, ticks, no_color, mode, renders, prev_no_color,
                   end_date, env_at_call, fn, previous>>

\* rendering.rs:206-209: render_to_string puts NO_COLOR back; render leaves it
restore_no_color(m, prev, env) ==
    IF m = "string"
    THEN IF is_some(prev) THEN Some(OsString(unwrap(prev))) ELSE None
    ELSE env

\* the loop has ended: the closing newline, and the return of render /
\* render_to_string
Return ==
    /\ \/ pc = "exit"
       \/ pc = "loop" /\ current_date > end_date
    /\ output' = Append(output, [kind |-> "newline"])
    /\ no_color' = restore_no_color(mode, prev_no_color, no_color)
    /\ pc' = "idle"
    /\ UNCHANGED <<calendar, now, ticks, mode, renders, prev_no_color, end_date,
                   current_date, week_num, current_month, details_queue,
                   shown_ranges, is_first_month, layout, next_layout, visited,
                   today_reads, env_at_call, fn, previous>>

\* midnight passes while a render is running
Tick ==
    /\ pc \in {"loop", "exit"}
    /\ ticks < MaxTicks
    /\ now' = now + 1
    /\ ticks' = ticks + 1
    /\ UNCHANGED <<calendar, no_color, pc, mode, renders, prev_no_color, end_date,
                   current_date, week_num, current_month, details_queue,
                   shown_ranges, is_first_month, layout, next_layout, output,
                   visited, today_reads, env_at_call, fn, previous>>

Next == Render \/ RenderToString \/ SkipWeek \/ EmitWeek \/ Return \/ Tick

Spec == Init /\ [][Next]_vars
SpecAnnotations == InitAnnotations /\ [][Next]_vars

\* the walk is sequential code: a loop iteration that can run does run, and
\* so does the return once the loop has ended. Nothing obliges a caller to
\* render, or the clock to pass midnight.
TerminationCalendars ==
    {Calendar_new(yr, ws, "Normal", f, <<>>, <<>>) :
        yr \in Years, ws \in WeekStarts, f \in WalkFilters}
\* the clock matters to the walk only under a filter that reads it
InitTermination ==
    \/ InitWith({c \in TerminationCalendars : ~reads_clock(c.month_filter)},
                {from_ymd(2024, 1, 31)}, {None}, "idle")
    \/ InitWith({c \in TerminationCalendars : reads_clock(c.month_filter)},
                WalkTodays, {None}, "idle")
SpecTermination ==
    /\ InitTermination
    /\ [][Next]_vars
    /\ WF_vars(SkipWeek) /\ WF_vars(EmitWeek) /\ WF_vars(Return)

-----------------------------------------------------------------------------
(* The pure functions, applied to drawn inputs *)

\* get_date_color: a Thursday-to-Tuesday stretch with details without and
\* with a colour and ranges that overlap, stored in any order
ColourDates == from_ymd(2024, 7, 4) .. from_ymd(2024, 7, 9)
ColourDetails ==
    (from_ymd(2024, 7, 5) :> DateDetail("Work", Some("blue")))
    @@ (from_ymd(2024, 7, 6) :> DateDetail("Party", Some("red")))
    @@ (from_ymd(2024, 7, 8) :> DateDetail("Plain", None))
ColourRanges ==
    {DateRange(from_ymd(2024, 7, 6), from_ymd(2024, 7, 8), "green", None),
     DateRange(from_ymd(2024, 7, 4), from_ymd(2024, 7, 7), "yellow", Some("Long")),
     DateRange(from_ymd(2024, 7, 8), from_ymd(2024, 7, 8), "cyan", None)}
ColourCalendars ==
    {Calendar_new(2024, "Monday", cm, FilterAll, DetailsOn(D, ColourDetails), r) :
        cm \in ColorModes, D \in SubsetsUpTo(DOMAIN ColourDetails, MaxDetails),
        r \in SeqsUpTo(ColourRanges, MaxRanges)}

\* get_month_range: every filter main.rs can build, a today in every month,
\* asked for today's year and for its neighbours
AllFilters ==
    {FilterAll, FilterCurrent}
    \cup {FilterSingle(m) : m \in 1 .. 12}
    \cup {FilterCurrentWithFollowing(n) : n \in 0 .. 11}
FilterCalendars ==
    {Calendar_new(2024, "Monday", "Normal", f, <<>>, <<>>) : f \in AllFilters}
FilterTodays == {from_ymd(2024, m, 15) : m \in 1 .. 12}
FilterYears == 2023 .. 2025

\* align_to_week_start: both week starts, three weeks around a year boundary
AlignCalendars ==
    {Calendar_new(2024, ws, "Normal", FilterAll, <<>>, <<>>) : ws \in WeekStarts}
AlignDates == from_ymd(2023, 12, 22) .. from_ymd(2024, 1, 11)

FnInputs ==
    (ColourCalendars \X {from_ymd(2024, 7, 6)})
    \cup (FilterCalendars \X FilterTodays)
    \cup (AlignCalendars \X {from_ymd(2024, 7, 6)})

InitFn == \E in \in FnInputs : InitWith({in[1]}, {in[2]}, {None}, "fn")

UnchangedByCall ==
    UNCHANGED <<calendar, now, ticks, no_color, pc, mode, renders, prev_no_color,
                end_date, current_date, week_num, current_month, details_queue,
                shown_ranges, is_first_month, layout, next_layout, output,
                visited, today_reads, env_at_call, previous>>

CallAlignToWeekStart ==
    /\ pc = "fn"
    /\ calendar \in AlignCalendars
    /\ \E dt \in AlignDates :
          LET aligned == align_to_week_start(calendar.week_start, dt)
          IN  fn' = [op |-> "align_to_week_start", date |-> dt, result |-> aligned,
                     again |-> align_to_week_start(calendar.week_start, aligned)]
    /\ UnchangedByCall

CallGetDateColor ==
    /\ pc = "fn"
    /\ calendar \in ColourCalendars
    /\ \E dt \in ColourDates :
          fn' = [op |-> "get_date_color", date |-> dt,
                 result |-> get_date_color(calendar, dt)]
    /\ UnchangedByCall

CallGetMonthRange ==
    /\ pc = "fn"
    /\ calendar \in FilterCalendars
    /\ \E yr \in FilterYears :
          fn' = [op |-> "get_month_range", year |-> yr, today |-> now,
                 result |-> get_month_range(calendar.month_filter, yr, now)]
    /\ UnchangedByCall

NextFn == CallAlignToWeekStart \/ CallGetDateColor \/ CallGetMonthRange

SpecFn == InitFn /\ [][NextFn]_vars

-----------------------------------------------------------------------------
(* Reading the output *)

\* the indices of the week rows among the output lines
WeekRows == {i \in DOMAIN output : output[i].kind = "week_row"}

\* a render has returned and output holds all it wrote
PassDone == pc = "idle" /\ renders > 0

\* the week rows that carry an annotation of the given kind and source
RowsWith(kind, src) ==
    {i \in WeekRows :
        \E k \in DOMAIN output[i].annotations :
            /\ output[i].annotations[k].kind = kind
            /\ output[i].annotations[k].src = src}

\* the week rows whose 7 dates reach into [first, last]
RowsOverlapping(first, last) ==
    {i \in WeekRows : output[i].dates[1] <= last /\ output[i].dates[DAYS_IN_WEEK] >= first}

\* b is the calendar day after a, by year, month and day
IsNextDay(a, b) ==
    IF day(a) < days_in_month(year(a), month(a))
    THEN year(b) = year(a) /\ month(b) = month(a) /\ day(b) = day(a) + 1
    ELSE IF month(a) < 12
    THEN year(b) = year(a) /\ month(b) = month(a) + 1 /\ day(b) = 1
    ELSE year(b) = year(a) + 1 /\ month(b) = 1 /\ day(b) = 1

SevenConsecutive(lay) ==
    /\ Len(lay.dates) = 7
    /\ \A i \in 2 .. 7 : IsNextDay(lay.dates[i - 1], lay.dates[i])

-----------------------------------------------------------------------------
(* C1 *)

InYearDetails == {dt \in DOMAIN calendar.details : year(dt) = calendar.year}

\* C1: with MonthFilter::All, every point detail dated in the rendered year is
\* written, as "MM/DD - description", in at most one week row while the pass
\* runs and in exactly one once it has returned, and that row is the week
\* whose 7 dates contain the detail's date.
C1_DetailOnce ==
    calendar.month_filter.kind = "All" =>
        \A dt \in InYearDetails :
            LET rows == RowsWith("detail", dt)
            IN  /\ Cardinality(rows) <= 1
                /\ PassDone => Cardinality(rows) = 1
                /\ \A i \in rows :
                      /\ dt \in SeqRange(output[i].dates)
                      /\ Cardinality({k \in DOMAIN output[i].annotations :
                              output[i].annotations[k].kind = "detail"
                              /\ output[i].annotations[k].src = dt}) = 1
                      /\ \A k \in DOMAIN output[i].annotations :
                            (output[i].annotations[k].kind = "detail"
                             /\ output[i].annotations[k].src = dt)
                            => output[i].annotations[k].text
                               = <<<<month(dt), day(dt)>>, "-",
                                   calendar.details[dt].description>>

\* a full-year render has returned with two details of one week, one of them on
\* the week's first date, on one row and more rows after it
C1_Witness ==
    /\ PassDone
    /\ calendar.month_filter.kind = "All"
    /\ \E i \in WeekRows :
          /\ Cardinality({k \in DOMAIN output[i].annotations :
                            output[i].annotations[k].kind = "detail"}) = 2
          /\ RowsWith("detail", output[i].dates[1]) = {i}
          /\ \E j \in WeekRows : j > i

-----------------------------------------------------------------------------
(* C2 *)

\* C2: every range that overlaps an emitted week is written in exactly one
\* week row, the earliest emitted one whose dates overlap [start, end]; a
\* range that overlaps no emitted week is written nowhere.
C2_RangeOnce ==
    \A r \in DOMAIN calendar.ranges :
        LET over == RowsOverlapping(calendar.ranges[r].start, calendar.ranges[r].end)
            rows == RowsWith("range", r)
        IN  /\ over = {} => rows = {}
            /\ over /= {} => rows = {CHOOSE i \in over : \A j \in over : i <= j}
            /\ \A i \in rows :
                  Cardinality({k \in DOMAIN output[i].annotations :
                      output[i].annotations[k].kind = "range"
                      /\ output[i].annotations[k].src = r}) = 1

\* a range that spans a week boundary is on the first of two emitted rows that
\* overlap it, and the render has returned
C2_Witness ==
    /\ PassDone
    /\ \E r \in DOMAIN calendar.ranges :
          LET over == RowsOverlapping(calendar.ranges[r].start, calendar.ranges[r].end)
          IN  /\ Cardinality(over) = 2
              /\ \E i \in over : RowsWith("range", r) = {i} /\ \E j \in over : j > i

-----------------------------------------------------------------------------
(* C3 *)

\* the stored indices of the ranges that contain dt
RangesContaining(cal, dt) ==
    {i \in DOMAIN cal.ranges : cal.ranges[i].start <= dt /\ dt <= cal.ranges[i].end}

\* C3: get_date_color is none for a Saturday or Sunday in Work mode; otherwise
\* the colour of the date's detail if it has one; otherwise the colour of the
\* range of least stored index that contains the date; otherwise none.
C3_ColorPrecedence ==
    fn.op = "get_date_color" =>
        LET dt == fn.date
            containing == RangesContaining(calendar, dt)
        IN  fn.result =
               IF calendar.color_mode = "Work" /\ num_days_from_monday(dt) >= 5
               THEN None
               ELSE IF dt \in DOMAIN calendar.details
                       /\ calendar.details[dt].color /= None
               THEN calendar.details[dt].color
               ELSE IF containing /= {}
               THEN Some(calendar.ranges[CHOOSE i \in containing :
                                            \A j \in containing : i <= j].color)
               ELSE None

\* a weekday whose detail has no colour takes the colour of the first stored of
\* two ranges, which starts later than the second
C3_Witness ==
    /\ fn.op = "get_date_color"
    /\ calendar.color_mode = "Normal"
    /\ fn.date \in DOMAIN calendar.details
    /\ calendar.details[fn.date].color = None
    /\ RangesContaining(calendar, fn.date) = {1, 2}
    /\ calendar.ranges[1].start > calendar.ranges[2].start
    /\ fn.result = Some(calendar.ranges[1].color)

-----------------------------------------------------------------------------
(* C4 *)

\* C4: get_month_range is (1,12) for All, (m,m) for Single(m), (t,t) for
\* Current and (t, min(t+n,12)) for CurrentWithFollowing(n), t today's month;
\* 1 <= start <= end <= 12; and the year argument does not change the result.
C4_MonthRange ==
    fn.op = "get_month_range" =>
        LET f == calendar.month_filter
            t == month(fn.today)
        IN  /\ f.kind = "All" => fn.result = <<1, 12>>
            /\ f.kind = "Single" => fn.result = <<f.arg, f.arg>>
            /\ f.kind = "Current" => fn.result = <<t, t>>
            /\ f.kind = "CurrentWithFollowing" =>
                  fn.result = <<t, IF t + f.arg > 12 THEN 12 ELSE t + f.arg>>
            /\ 1 <= fn.result[1]
            /\ fn.result[1] <= fn.result[2]
            /\ fn.result[2] <= 12
            /\ \A yr \in FilterYears : get_month_range(f, yr, fn.today) = fn.result

\* CurrentWithFollowing(11) asked in November for another year than today's
\* ends in December
C4_Witness ==
    /\ fn.op = "get_month_range"
    /\ calendar.month_filter = FilterCurrentWithFollowing(11)
    /\ month(fn.today) = 11
    /\ fn.year /= year(fn.today)
    /\ fn.result = <<11, 12>>

-----------------------------------------------------------------------------
(* C5 *)

\* the week-aligned dates whose week holds a date of the rendered year in a
\* month of [r[1], r[2]]
ExpectedWeeks(cal, r) ==
    {w \in (from_ymd(cal.year, 1, 1) - 6) .. from_ymd(cal.year, 12, 31) :
        /\ (IF cal.week_start = "Monday" THEN (w - 1) % 7 ELSE w % 7) = 0
        /\ \E i \in 0 .. 6 :
              year(w + i) = cal.year /\ month(w + i) >= r[1] /\ month(w + i) <= r[2]}

EmittedWeeks == {output[i].dates[1] : i \in WeekRows}

\* C5: when a render has returned, the emitted week rows are exactly the
\* week-aligned weeks that hold a date of the rendered year in a month of the
\* filter's range, for the range as one of the clock values of the pass gives it.
C5_EmittedWeeks ==
    PassDone =>
        \E t \in today_reads \cup {now} :
            EmittedWeeks
            = ExpectedWeeks(calendar, get_month_range(calendar.month_filter,
                                                      calendar.year, t))

-----------------------------------------------------------------------------
(* C6 *)

\* C6: align_to_week_start gives a date of weekday index 0 (a Monday for
\* WeekStart::Monday, a Sunday for WeekStart::Sunday) at most 6 days before
\* its argument, the argument itself when that is aligned, and aligning the
\* result again changes nothing.
C6_AlignIdempotent ==
    fn.op = "align_to_week_start" =>
        /\ fn.again = fn.result
        /\ (IF calendar.week_start = "Monday"
            THEN (fn.result - 1) % 7 ELSE fn.result % 7) = 0
        /\ fn.result <= fn.date
        /\ fn.date - fn.result <= 6
        /\ (IF calendar.week_start = "Monday"
            THEN (fn.date - 1) % 7 ELSE fn.date % 7) = 0 => fn.result = fn.date

\* a date of January is aligned 6 days back, into the year before
C6_Witness ==
    /\ fn.op = "align_to_week_start"
    /\ fn.date - fn.result = 6
    /\ year(fn.result) < year(fn.date)
    /\ fn.again = fn.result

-----------------------------------------------------------------------------
(* C7 *)

\* C7: every WeekLayout the loop builds holds 7 dates, each the calendar day
\* after the one before; the first visited week starts at a week-aligned date,
\* every visited week starts the day after the one before it ended, and every
\* date from the first visited date to the last belongs to exactly one week.
C7_WeeksContiguous ==
    /\ layout /= NoLayout => SevenConsecutive(layout)
    /\ next_layout /= NoLayout => SevenConsecutive(next_layout)
    /\ layout /= NoLayout =>
          visited[Len(visited)] = <<layout.dates[1], layout.dates[7]>>
    /\ \A k \in DOMAIN visited :
          /\ visited[k][2] = visited[k][1] + 6
          /\ k = 1 => (IF calendar.week_start = "Monday"
                       THEN (visited[k][1] - 1) % 7 ELSE visited[k][1] % 7) = 0
          /\ k > 1 => IsNextDay(visited[k - 1][2], visited[k][1])
    /\ visited /= <<>> =>
          \A dt \in visited[1][1] .. visited[Len(visited)][2] :
              Cardinality({k \in DOMAIN visited :
                              visited[k][1] <= dt /\ dt <= visited[k][2]}) = 1

\* the walk has skipped a week, and its last layout crosses into the next year
C7_Witness ==
    /\ Len(visited) > Cardinality(WeekRows)
    /\ Cardinality(WeekRows) >= 2
    /\ layout /= NoLayout
    /\ year(layout.dates[7]) > year(layout.dates[1])

-----------------------------------------------------------------------------
(* C8 *)

\* C8: when render_to_string has returned, NO_COLOR is what it was when the
\* call was made: the same value if it was set, unset if it was unset.
C8_NoColorRestored ==
    (PassDone /\ mode = "string") => no_color = env_at_call

-----------------------------------------------------------------------------
(* C9 *)

\* C9: all the clock reads of one render pass give the same date.
C9_TodayReadOnce == Cardinality(today_reads) <= 1

-----------------------------------------------------------------------------
(* C10 *)

OutOfYearDetails == {dt \in DOMAIN calendar.details : year(dt) /= calendar.year}
OutOfYearRanges ==
    {r \in DOMAIN calendar.ranges :
        \A dt \in calendar.ranges[r].start .. calendar.ranges[r].end :
            year(dt) /= calendar.year}

\* the colours of the emitted day cells of date dt
CellColors(dt) ==
    {output[p[1]].cells[p[2]].color :
        p \in {q \in WeekRows \X (1 .. DAYS_IN_WEEK) : output[q[1]].dates[q[2]] = dt}}
    \ {None}

\* C10: a detail or a range dated wholly outside the rendered year adds no
\* annotation to any row and gives its colour to no day cell.
C10_OutOfYearInert ==
    /\ \A dt \in OutOfYearDetails :
          /\ RowsWith("detail", dt) = {}
          /\ calendar.details[dt].color \notin CellColors(dt)
    /\ \A r \in OutOfYearRanges :
          /\ RowsWith("range", r) = {}
          /\ \A dt \in calendar.ranges[r].start .. calendar.ranges[r].end :
                Some(calendar.ranges[r].color) \notin CellColors(dt)

-----------------------------------------------------------------------------
(* C11 *)

\* a line without its colour/style escape sequences
PlainCell(c) == [c EXCEPT !.color = None, !.bg = None, !.fg = None, !.effects = {}]
PlainAnnotation(a) == [a EXCEPT !.style = [bg |-> None, fg |-> None]]
PlainLine(l) ==
    IF l.kind = "week_row"
    THEN [l EXCEPT !.cells = [i \in DOMAIN l.cells |-> PlainCell(l.cells[i])],
                   !.annotations = [k \in DOMAIN l.annotations |->
                                       PlainAnnotation(l.annotations[k])]]
    ELSE l
Plain(out) == [i \in DOMAIN out |-> PlainLine(out[i])]

\* the last two renders were one render() and one render_to_string() and the
\* clock did not move
BothWalksDone ==
    PassDone /\ ticks = 0 /\ previous.mode /= "none" /\ previous.mode /= mode

\* NO_COLOR as print_weeks saw it
PrintEnv == IF mode = "print" THEN env_at_call ELSE previous.env

-----------------------------------------------------------------------------
(* C12 *)

\* the position of week row i among the week rows written, from 1
RowNumber(i) == Cardinality({j \in WeekRows : j <= i})

\* C12: in every render the counter is one more than the week rows written
\* so far, whatever was skipped and whatever an earlier render counted, and
\* when the render has returned the k-th week row written carries the number k.
C12_WeekCounter ==
    /\ pc \in {"loop", "exit"} => week_num = Cardinality(WeekRows) + 1
    /\ PassDone => \A i \in WeekRows : output[i].week_num = RowNumber(i)

\* a second render that skipped its first week and then wrote rows
C12_Witness ==
    /\ renders = 2
    /\ PassDone
    /\ Cardinality(WeekRows) >= 2
    /\ visited[1][1] \notin EmittedWeeks

-----------------------------------------------------------------------------
(* C13 *)

\* a step that built a week moved current_date on by exactly 7 days
AdvanceBySeven ==
    Len(visited') = Len(visited) + 1 => current_date' = current_date + 7

\* no emitted week starts after the filtered end date or after the year
NoLateRow ==
    \A i \in WeekRows :
        /\ output[i].dates[1] <= end_date
        /\ year(output[i].dates[1]) <= calendar.year

\* a render returns only with the walk past the end date or past the year
DoneWhenPast ==
    PassDone => (current_date > end_date \/ year(current_date) > calendar.year)

\* C13: every iteration of the week loop, skipping or emitting, advances the
\* current date by 7 days; no week starting after the filtered end date or in
\* the following year is emitted; and a walk that has started always returns,
\* with the date past the end date or in the following year.
C13_WalkTerminates ==
    /\ [][AdvanceBySeven]_vars
    /\ [](NoLateRow /\ DoneWhenPast)
    /\ (pc \in {"loop", "exit"}) ~> (pc = "idle")

\* a walk that skipped weeks, wrote rows and ran to the filtered end date
C13_Witness ==
    /\ PassDone
    /\ current_date > end_date
    /\ WeekRows /= {}
    /\ Len(visited) > Cardinality(WeekRows)

-----------------------------------------------------------------------------
(* C14 *)

ClosingRows == {i \in DOMAIN output : output[i].kind = "closing"}
LastWeekRow == CHOOSE i \in WeekRows : \A j \in WeekRows : j <= i

\* the indices (from 0) inside a week where the month or the year changes
ChangesInside(dates) ==
    {k - 1 : k \in {j \in 2 .. DAYS_IN_WEEK :
                       month(dates[j]) /= month(dates[j - 1])
                       \/ year(dates[j]) /= year(dates[j - 1])}}

\* C14: a render never writes more than one closing border, and one that has
\* returned with at least one week row has written exactly one, directly after
\* the last week row and as the last line before the final newline; it carries
\* the index of the month or year change inside that week, or none.
C14_ClosingBorder ==
    /\ Cardinality(ClosingRows) <= 1
    /\ (PassDone /\ WeekRows /= {}) =>
          /\ ClosingRows = {LastWeekRow + 1}
          /\ LastWeekRow + 1 = Len(output) - 1
          /\ LET c == output[LastWeekRow + 1].idx
                  ch == ChangesInside(output[LastWeekRow].dates)
              IN  IF ch = {} THEN c = None ELSE is_some(c) /\ unwrap(c) \in ch

\* the same, for renders during which the clock did not move
C14_ClosingBorderSameToday == ticks = 0 => C14_ClosingBorder

-----------------------------------------------------------------------------
(* C15 *)

\* the week rows that another week row follows, and that next row
FollowedRows == {i \in WeekRows : \E j \in WeekRows : j > i}
NextRow(i) == CHOOSE j \in WeekRows : j > i /\ \A k \in WeekRows : k > i => j <= k

\* the kinds of the lines written between week row i and the next week row
KindsAfter(i) == [k \in 1 .. (NextRow(i) - i - 1) |-> output[i + k].kind]

\* the separator the week starting on first has to be followed by
ExpectedAfter(first) ==
    LET cur == WeekLayout_new(first).month_start_idx
        nxt == WeekLayout_new(first + DAYS_IN_WEEK).month_start_idx
    IN  IF is_some(cur) /\ unwrap(cur)[1] > 0 THEN <<"separator">>
        ELSE IF ~is_some(cur) /\ is_some(nxt)
                /\ first + DAYS_IN_WEEK <= end_date
                /\ year(first + DAYS_IN_WEEK) = calendar.year
        THEN <<"separator_before_month">>
        ELSE <<>>

\* C15: when a render has returned, between a week row and the next week row
\* there is a mid-table
\* separator exactly when the week has a month-start marker at an index > 0,
\* else a pre-month separator exactly when the week has no marker and the next
\* week has one and starts in the rendered year on or before the end date,
\* else nothing; so where the month differs between the end of a row and the
\* start of the next, a separator lies between them or the next row starts
\* on the first of a month.
C15_Separators ==
    PassDone =>
        \A i \in FollowedRows :
            /\ KindsAfter(i) = ExpectedAfter(output[i].dates[1])
            /\ month(output[i].dates[DAYS_IN_WEEK]) /= month(output[NextRow(i)].dates[1])
                  => \/ KindsAfter(i) /= <<>>
                     \/ day(output[NextRow(i)].dates[1]) = 1

\* a finished render with a mid-table separator, a pre-month separator, and a
\* week that starts a month on its first day and is followed by no separator
C15_Witness ==
    /\ PassDone
    /\ \E i \in FollowedRows : KindsAfter(i) = <<"separator">>
    /\ \E i \in FollowedRows : KindsAfter(i) = <<"separator_before_month">>
    /\ \E i \in FollowedRows : KindsAfter(i) = <<>> /\ day(output[i].dates[1]) = 1

-----------------------------------------------------------------------------
(* C16 *)

\* the texts of all frame lines written so far
FrameLines == UNION {SeqRange(frame_lines(output[i])) : i \in DOMAIN output}

\* the columns, from 0, where a text has the character
Columns(text, c) == {k - 1 : k \in {j \in DOMAIN text : text[j] = c}}

BoundaryColumn(i) == 14 + 5 * i
FrameWidth == HEADER_WIDTH + 2

\* the boundary indices (from 0) of a week row's day cells
RowBoundaries(row) == {k - 1 : k \in {j \in DOMAIN row.cells : row.cells[j].sep}}

\* C16: for every boundary index i in 1..6 the month-opening border, the
\* mid-table separator, the pre-month separator and the closing border have
\* their boundary character at column 14 + 5*i, as has every written week row
\* its in-row vertical bar, and every frame line a render has written when it
\* returns is 50 characters wide.
C16_GlyphColumns ==
    PassDone =>
        /\ \A i \in 1 .. (DAYS_IN_WEEK - 1) :
              /\ Columns(month_border_text(i), "DOWN_AND_HORIZONTAL")
                    = {BoundaryColumn(i)}
              /\ Columns(separator_text(Some(i)), "UP_AND_LEFT") = {BoundaryColumn(i)}
              /\ Columns(separator_before_month_text(Some(i)), "DOWN_AND_RIGHT")
                    = {BoundaryColumn(i)}
              /\ Columns(closing_text(Some(i)), "UP_AND_HORIZONTAL")
                    = {BoundaryColumn(0), BoundaryColumn(i)}
        /\ \A r \in WeekRows :
              Columns(week_row_text(output[r]), "VERTICAL")
              = {0, BoundaryColumn(0), FrameWidth - 1}
                \cup {BoundaryColumn(i) : i \in RowBoundaries(output[r])}
        /\ \A text \in FrameLines : Len(text) = FrameWidth

\* a finished render with every kind of frame line and, over its week rows,
\* a vertical bar at each of the boundary indices 1..6
C16_Witness ==
    /\ PassDone
    /\ {output[i].kind : i \in DOMAIN output}
         = {"header", "month_border", "week_row", "separator",
            "separator_before_month", "closing", "newline"}
    /\ UNION {RowBoundaries(output[r]) : r \in WeekRows} = 1 .. (DAYS_IN_WEEK - 1)


-----------------------------------------------------------------------------
(* C17 *)

BorderRows == {i \in DOMAIN output : output[i].kind = "month_border"}
FirstWeekRow == CHOOSE i \in WeekRows : \A j \in WeekRows : i <= j

\* the marker of a row, from its seven dates: the first index (from 0) whose
\* date starts a month, index 0 only on the first day of a month
RowMarker(row) ==
    LET marks == {i \in 1 .. DAYS_IN_WEEK : month_start_at(row.dates, i)}
    IN  IF marks = {} THEN None
        ELSE Some((CHOOSE i \in marks : \A j \in marks : i <= j) - 1)

OpensInsideWeek(row) == is_some(RowMarker(row)) /\ unwrap(RowMarker(row)) > 0

\* C17: a render emits at most one month-opening border; it emits one exactly
\* when the first emitted week carries a month-start marker at an index > 0,
\* directly before that week's row and drawn at that index; no border stands
\* before a later week row, and none when the first marker is at index 0
C17_MonthBorder ==
    /\ Cardinality(BorderRows) <= 1
    /\ WeekRows = {} => BorderRows = {}
    /\ WeekRows /= {} =>
          LET first == output[FirstWeekRow]
          IN  IF OpensInsideWeek(first)
              THEN /\ BorderRows = {FirstWeekRow - 1}
                   /\ output[FirstWeekRow - 1].idx = unwrap(RowMarker(first))
              ELSE BorderRows = {}

\* a finished render with a border before its first row and a later row whose
\* month starts inside the week without a border of its own
C17_Witness ==
    /\ PassDone
    /\ BorderRows /= {}
    /\ \E i \in WeekRows : i > FirstWeekRow /\ OpensInsideWeek(output[i])
    /\ output[FirstWeekRow - 1].kind = "month_border"

-----------------------------------------------------------------------------
(* C18 *)

\* the suffix of a row as the claim describes it: the parts with ", " between
Joined(parts) ==
    Concat([k \in 1 .. (2 * Len(parts) - 1) |->
               IF k % 2 = 1 THEN parts[(k + 1) \div 2] ELSE <<",", " ">>])

Suffix(row) == annotations_text(row.annotations, TRUE)

\* details before ranges, details by ascending date, ranges by ascending
\* position in calendar.ranges
InClaimedOrder(a) ==
    \A i, j \in DOMAIN a :
        i < j =>
            /\ a[i].kind = "range" => a[j].kind = "range"
            /\ a[i].kind = a[j].kind => a[i].src < a[j].src

\* C18: in the annotation suffix of a week row the point details of the week
\* come first, by ascending date, then the newly shown ranges in their stored
\* order; the parts are joined by ", " and the suffix is empty when the week
\* has no annotation; two renders of the same Calendar with the same today
\* give the same suffixes
C18_AnnotationOrder ==
    PassDone =>
        /\ \A r \in WeekRows :
              LET a == output[r].annotations
              IN  /\ InClaimedOrder(a)
                  /\ Suffix(output[r]) = Joined([k \in DOMAIN a |-> annotation_text(a[k])])
                  /\ (a = <<>>) <=> (Suffix(output[r]) = <<>>)
        /\ previous.mode /= "none" /\ ticks = 0 =>
              /\ DOMAIN previous.output = DOMAIN output
              /\ \A r \in WeekRows :
                    /\ previous.output[r].kind = "week_row"
                    /\ Suffix(previous.output[r]) = Suffix(output[r])

\* the second of two renders is done, and one of its rows carries two point
\* details and two ranges stored in the reverse order of their end dates
C18_Witness ==
    /\ PassDone
    /\ renders = 2
    /\ ticks = 0
    /\ \E r \in WeekRows :
          LET a == output[r].annotations
          IN  /\ \E i, j \in DOMAIN a :
                    /\ i < j
                    /\ a[i].kind = "range" /\ a[j].kind = "range"
                    /\ calendar.ranges[a[i].src].end > calendar.ranges[a[j].src].end
              /\ Cardinality({k \in DOMAIN a : a[k].kind = "detail"}) >= 2

-----------------------------------------------------------------------------
(* C19 *)

\* the months a row has days of, each with its year
MonthsOf(row) ==
    {<<year(row.dates[i]), month(row.dates[i])>> : i \in 1 .. DAYS_IN_WEEK}

\* row r is the first emitted week with a day of the month ym
FirstWeekOf(r, ym) ==
    /\ ym \in MonthsOf(output[r])
    /\ \A q \in WeekRows : q < r => ym \notin MonthsOf(output[q])

\* the rule of the labels on the rows of a set: a named row is the first
\* emitted week of a month with that name, an unnamed row is the first
\* emitted week of no month, and no two rows show the same name
MonthLabels(rows) ==
    /\ \A r \in rows :
          IF is_some(output[r].month_name)
          THEN \E ym \in MonthsOf(output[r]) :
                  ym[2] = unwrap(output[r].month_name) /\ FirstWeekOf(r, ym)
          ELSE \A ym \in MonthsOf(output[r]) : ~FirstWeekOf(r, ym)
    /\ \A r1, r2 \in rows :
          r1 < r2 /\ is_some(output[r1].month_name)
              => output[r1].month_name /= output[r2].month_name

\* C19: a week row's label shows a month name exactly when the row is the
\* first emitted week containing a day of that month; a row that continues a
\* labelled month shows the week number alone; each month's name is on at
\* most one row of a render
C19_MonthLabels == PassDone => MonthLabels(WeekRows)

SpillsOver(row) == \E i \in 1 .. DAYS_IN_WEEK : year(row.dates[i]) > calendar.year

\* the label rule on the rows that end inside the rendered year
C19_MonthLabelsInsideYear ==
    PassDone => MonthLabels({r \in WeekRows : ~SpillsOver(output[r])})

-----------------------------------------------------------------------------
(* C20 *)

\* the dates of a row that lie in the month the row's label names
NamedDates(row) ==
    {row.dates[i] : i \in {k \in 1 .. DAYS_IN_WEEK :
                              Some(month(row.dates[k])) = row.month_name}}

\* C20: every month name in a week-row label names a month of the rendered
\* year inside the filter's month range: under Single(m) only m is named, and
\* the last week of December is not labelled with the next year's January
C20_LabelsInsideFilter ==
    PassDone /\ ticks = 0 =>
        \A r \in WeekRows :
            is_some(output[r].month_name) =>
                \A d \in NamedDates(output[r]) :
                    /\ year(d) = calendar.year
                    /\ should_display_month(calendar.month_filter, month(d),
                                            calendar.year, now)

\* the part of C20 on the year: no label names a month of the next year
C20_LabelsInsideYear ==
    PassDone /\ ticks = 0 =>
        \A r \in WeekRows :
            is_some(output[r].month_name) =>
                \A d \in NamedDates(output[r]) : year(d) = calendar.year

-----------------------------------------------------------------------------
(* C21 *)

\* the working state between two iterations of the week loop: no detail is
\* pending, and shown_ranges names ranges of the Calendar, each at most once
\* (indices from 1 here, from 0 in the code)
WorkingStateSound ==
    /\ details_queue = <<>>
    /\ \A k \in DOMAIN shown_ranges : shown_ranges[k] \in 1 .. Len(calendar.ranges)
    /\ \A j, k \in DOMAIN shown_ranges : j /= k => shown_ranges[j] /= shown_ranges[k]

\* within a render shown_ranges only grows: a step of the loop keeps what
\* the list held, in place
ShownRangesGrow ==
    pc \in {"loop", "exit"} =>
        /\ Len(shown_ranges') >= Len(shown_ranges)
        /\ \A k \in DOMAIN shown_ranges : shown_ranges'[k] = shown_ranges[k]

CalendarKept == calendar' = calendar

\* C21: at the end of every emitted week the pending-details queue is empty,
\* shown_ranges holds no index twice and only indices of calendar.ranges, and
\* it only grows during a render; rendering never modifies the Calendar's
\* details and ranges
C21_WorkingState ==
    /\ []WorkingStateSound
    /\ [][ShownRangesGrow /\ CalendarKept]_vars

\* a week has just been emitted with a point detail in its suffix, after two
\* ranges were shown, and the walk goes on
C21_Witness ==
    /\ pc = "loop"
    /\ WeekRows /= {}
    /\ Len(shown_ranges) >= 2
    /\ details_queue = <<>>
    /\ LET last == CHOOSE i \in WeekRows : \A j \in WeekRows : j <= i
          a == output[last].annotations
      IN  \E k \in DOMAIN a : a[k].kind = "detail"

=========================================================================
